---------------------------- MODULE Spec2Model ----------------------------
(***************************************************************************)
(* HabitFlow: the habit collection, its localStorage copy and its rendered *)
(* view, as kept by src/script.js (specification Spec) and by the          *)
(* simplified variant src/unnamed/part_000 (specification SpecSimple).     *)
(* Specification SpecStored is src/script.js opened on a larger collection *)
(* that an earlier session has saved, SpecProgress the same for the        *)
(* progress percentage, SpecScenario src/script.js with the habit "Drink   *)
(* Water", and SpecAnimated the variant src/unnamed/part_001 with the      *)
(* animated statistics.                                                    *)
(*                                                                         *)
(* JavaScript values are modelled as follows.  A string the code measures  *)
(* (a habit name) is a run-length encoded character sequence; a timestamp  *)
(* string produced by toISOString is the record [iso |-> t]; null is the   *)
(* record NULL.  A habit object is a TLA+ record with the object's keys.   *)
(* The value of the variable `habits` carries its JavaScript type, since   *)
(* JSON.parse may return something that is not an array.  The JSON text in *)
(* localStorage is a sequence of lexical items.                            *)
(***************************************************************************)
EXTENDS Integers, Sequences, FiniteSets, TLC

VARIABLES
    habits,          \* let habits: [type |-> "array", val |-> <<habit, ...>>]
    currentFilter,   \* let currentFilter: "all" | "active" | "completed"
    localStorage,    \* the item 'habitflow_habits': [has |-> FALSE] or [has |-> TRUE, text |-> tokens]
    now,             \* the clock read by Date.now() and new Date()
    listening,       \* TRUE once the event listeners are registered
    habitsContainer, \* the rendered cards, in order
    emptyState,      \* emptyState.style.display
    statsEls,        \* textContent of totalHabitsEl, completedTodayEl, streakCountEl, progressPercent
    errors,          \* the showError calls of the last handler, in order
    toasts,          \* the showToast calls of the last handler, in order
    writeFailures,   \* how many times localStorage.setItem has thrown
    timers           \* setInterval: how many timers were started, and the running ones in firing order

vars == <<habits, currentFilter, localStorage, now, listening, habitsContainer,
          emptyState, statsEls, errors, toasts, writeFailures, timers>>

(***************************************************************************)
(* Bounds of the model.                                                    *)
(***************************************************************************)
MaxHabits == 2
MaxClock == 1
MaxStreak == 2
MaxWriteFailures == 1
MaxStored == 8
MaxProgress == 40
MaxTimers == 6

(***************************************************************************)
(* Program constants.                                                      *)
(***************************************************************************)
MinNameLength == 3
MaxNameLength == 50

NULL == [null |-> TRUE]

\* The messages of showError and showToast, without their emoji
EmptyNameMsg == "Please enter a habit name!"
TooShortMsg == "Habit name must be at least 3 characters!"
TooLongMsg == "Habit name is too long (max 50 characters)!"
SaveFailedMsg == "Failed to save data!"
AddedMsg == "Habit added successfully!"
CompletedMsg == "Habit completed!"
IncompleteMsg == "Habit marked as incomplete"
DeletedMsg == "Habit deleted successfully"

(***************************************************************************)
(* Strings the code measures (the habit names) are run-length encoded: a  *)
(* sequence of runs [c |-> character, n |-> how many], n > 0, adjacent    *)
(* runs of different characters.  Str("a", 3) is "aaa".                   *)
(***************************************************************************)
Whitespace == {" ", "\t"}

Str(ch, n) == IF n = 0 THEN <<>> ELSE <<[c |-> ch, n |-> n]>>

RECURSIVE length(_)
length(s) == IF s = <<>> THEN 0 ELSE Head(s).n + length(Tail(s))

RECURSIVE TrimStart(_)
TrimStart(s) ==
    IF s # <<>> /\ Head(s).c \in Whitespace THEN TrimStart(Tail(s)) ELSE s

RECURSIVE TrimEnd(_)
TrimEnd(s) ==
    IF s # <<>> /\ s[Len(s)].c \in Whitespace
    THEN TrimEnd(SubSeq(s, 1, Len(s) - 1))
    ELSE s

\* Mutant of trim: trailing whitespace is kept
trim_startOnly(s) == TrimStart(s)

\* String.prototype.trim
trim(s) == TrimEnd(TrimStart(s))

\* Date.prototype.toISOString of the instant t
toISOString(t) == [iso |-> t]

(***************************************************************************)
(* JavaScript values of the variable `habits`.                             *)
(***************************************************************************)
Arr(items) == [type |-> "array", val |-> items]
JSNull == [type |-> "null", val |-> NULL]
IsArray(v) == v.type = "array"

(***************************************************************************)
(* JSON text is a sequence of lexical items: the brackets, braces and the  *)
(* commas between array elements, a literal [t |-> "num" | "str" | "true"  *)
(* | "false" | "null", v |-> its value], and, inside an object, one item   *)
(* [t |-> "member", k |-> key, lit |-> literal] for each "key":literal.    *)
(*                                                                         *)
(* JSON.stringify of the collection: the keys of each object in insertion  *)
(* order, a key whose value is undefined (not in the record) left out.     *)
(***************************************************************************)
KeyOrder == <<"id", "name", "category", "completed", "createdAt", "completedAt", "streak">>

Literal(k, v) ==
    IF k \in {"id", "streak"} THEN [t |-> "num", v |-> v]
    ELSE IF k = "completed" THEN [t |-> IF v THEN "true" ELSE "false", v |-> v]
    ELSE IF k = "completedAt" /\ v = NULL THEN [t |-> "null", v |-> NULL]
    ELSE [t |-> "str", v |-> v]

HasKey(h, k) == k \in DOMAIN h

\* Mutant of ObjectText: a key whose value is null is left out, as one whose
\* value is undefined is
ObjectText_skipsNull(h) ==
    LET keys == SelectSeq(KeyOrder, LAMBDA k : HasKey(h, k) /\ ~(k = "completedAt" /\ h[k] = NULL)) IN
    <<[t |-> "{"]>>
    \o [i \in 1..Len(keys) |-> [t |-> "member", k |-> keys[i], lit |-> Literal(keys[i], h[keys[i]])]]
    \o <<[t |-> "}"]>>

ObjectText(h) ==
    LET keys == SelectSeq(KeyOrder, LAMBDA k : HasKey(h, k)) IN
    <<[t |-> "{"]>>
    \o [i \in 1..Len(keys) |-> [t |-> "member", k |-> keys[i], lit |-> Literal(keys[i], h[keys[i]])]]
    \o <<[t |-> "}"]>>

RECURSIVE ElementsText(_, _)
ElementsText(items, i) ==
    IF i > Len(items) THEN <<>>
    ELSE (IF i = 1 THEN <<>> ELSE <<[t |-> ","]>>)
         \o ObjectText(items[i]) \o ElementsText(items, i + 1)

JSONstringify(v) ==
    IF IsArray(v)
    THEN <<[t |-> "["]>> \o ElementsText(v.val, 1) \o <<[t |-> "]"]>>
    ELSE IF v.type = "number" THEN <<[t |-> "num", v |-> v.val]>>
    ELSE IF v.type = "object" THEN <<[t |-> "{"], [t |-> "}"]>>
    ELSE <<[t |-> "null", v |-> NULL]>>

(***************************************************************************)
(* JSON.parse: a recursive-descent parser of the text.  Each Parse*        *)
(* operator returns [ok, type, val, next]; ok = FALSE is the SyntaxError.  *)
(***************************************************************************)
Tok(s, i) == IF i <= Len(s) THEN s[i].t ELSE "eof"
Fail == [ok |-> FALSE, type |-> "undefined", val |-> NULL, next |-> 0]
Got(type, val, next) == [ok |-> TRUE, type |-> type, val |-> val, next |-> next]

TypeOfLiteral(t) ==
    CASE t = "null" -> "null"
      [] t \in {"true", "false"} -> "boolean"
      [] t = "num" -> "number"
      [] OTHER -> "string"

RECURSIVE ParseValue(_, _)
RECURSIVE ParseElements(_, _, _)
RECURSIVE ParseMembers(_, _, _)

ParseValue(s, i) ==
    CASE Tok(s, i) \in {"null", "true", "false", "num", "str"} ->
            Got(TypeOfLiteral(s[i].t), s[i].v, i + 1)
      [] Tok(s, i) = "[" ->
            IF Tok(s, i + 1) = "]" THEN Got("array", <<>>, i + 2)
            ELSE ParseElements(s, i + 1, <<>>)
      [] Tok(s, i) = "{" -> ParseMembers(s, i + 1, <<>>)
      [] OTHER -> Fail

ParseElements(s, i, acc) ==
    LET e == ParseValue(s, i) IN
    IF ~e.ok THEN Fail
    ELSE IF Tok(s, e.next) = "," THEN ParseElements(s, e.next + 1, Append(acc, e.val))
    ELSE IF Tok(s, e.next) = "]" THEN Got("array", Append(acc, e.val), e.next + 1)
    ELSE Fail

\* A repeated key keeps its last value
ParseMembers(s, i, acc) ==
    IF Tok(s, i) = "}" THEN Got("object", acc, i + 1)
    ELSE IF Tok(s, i) = "member" THEN ParseMembers(s, i + 1, (s[i].k :> s[i].lit.v) @@ acc)
    ELSE Fail

\* [ok |-> FALSE] when JSON.parse throws, else the parsed value with its type
JSONparse(s) ==
    LET r == ParseValue(s, 1) IN
    IF r.ok /\ r.next = Len(s) + 1
    THEN [ok |-> TRUE, value |-> [type |-> r.type, val |-> r.val]]
    ELSE [ok |-> FALSE]

(***************************************************************************)
(* The view and the statistics.                                            *)
(***************************************************************************)
Filters == {"all", "active", "completed"}

\* Mutant of filter: the habits kept come out in reverse order
RECURSIVE filter_reversed(_, _)
filter_reversed(items, want) ==
    IF items = <<>> THEN <<>>
    ELSE filter_reversed(Tail(items), want)
         \o (IF Head(items).completed = want THEN <<Head(items)>> ELSE <<>>)

\* Array.prototype.filter with h => h.completed (want) or h => !h.completed
RECURSIVE filter(_, _)
filter(items, want) ==
    IF items = <<>> THEN <<>>
    ELSE (IF Head(items).completed = want THEN <<Head(items)>> ELSE <<>>)
         \o filter(Tail(items), want)

\* Mutant of getFilteredHabits: the 'active' filter is not recognised
getFilteredHabits_activeIsAll(items, mode) ==
    IF mode = "completed" THEN filter(items, TRUE)
    ELSE items

getFilteredHabits(items, mode) ==
    IF mode = "active" THEN filter(items, FALSE)
    ELSE IF mode = "completed" THEN filter(items, TRUE)
    ELSE items

\* What a card shows of its habit (the creation date is shown relative to the clock)
createHabitCard(h) ==
    [id |-> h.id, name |-> h.name, category |-> h.category,
     completed |-> h.completed, streak |-> h.streak]

\* The cards and the empty-state display renderHabits leaves behind
renderHabits(items, mode) ==
    LET filteredHabits == getFilteredHabits(items, mode) IN
    [cards |-> [i \in 1..Len(filteredHabits) |-> createHabitCard(filteredHabits[i])],
     emptyState |-> IF Len(filteredHabits) = 0 THEN "block" ELSE "none"]

\* Mutant of MaxOf: the last number in place of the largest
MaxOf_last(s) == s[Len(s)]

RECURSIVE MaxOf(_)
MaxOf(s) ==
    IF Len(s) = 1 THEN s[1]
    ELSE LET m == MaxOf(Tail(s)) IN IF s[1] >= m THEN s[1] ELSE m

(***************************************************************************)
(* The numbers of updateProgressBar are IEEE-754 doubles.  A double is    *)
(* kept as the exact fraction num / den it stands for, with a flag `short` *)
(* for the one rounding error Math.round can see: the exact value is      *)
(* k + 1/2 and the double lies just below it.                             *)
(***************************************************************************)
Mantissa == 52

\* floor(log2(num / den)) of a positive fraction: the exponent of its double
RECURSIVE Exponent(_, _)
Exponent(num, den) ==
    IF num >= 2 * den THEN Exponent(num, 2 * den) + 1
    ELSE IF num < den THEN Exponent(2 * num, den) - 1
    ELSE 0

\* (r * 2^s) % den
RECURSIVE ShiftMod(_, _, _)
ShiftMod(r, s, den) ==
    IF s = 0 THEN r % den ELSE ShiftMod((2 * r) % den, s - 1, den)

\* What the division leaves out of the 53-bit quotient of num / den, in
\* units of 1/den of its last bit
Remainder(num, den) == ShiftMod(num, Mantissa - Exponent(num, den), den)

\* completed / total, rounded to the nearest double: below the exact
\* quotient when less than half of the last bit is left out
Divide(num, den) ==
    [num |-> num, den |-> den,
     below |-> num > 0 /\ Remainder(num, den) > 0 /\ 2 * Remainder(num, den) < den]

\* (q) * 100, rounded to the nearest double
Times100(q) ==
    LET twice == (200 * q.num) \div q.den
        tie == (200 * q.num) % q.den = 0 /\ twice % 2 = 1
        lost == 100 * Remainder(q.num, q.den) * (IF twice = 1 THEN 2 ELSE 1)
        step == q.den * 2 ^ (Exponent(twice, 2) - Exponent(q.num, q.den))
    IN [num |-> 100 * q.num, den |-> q.den,
        short |-> tie /\ q.below /\ 2 * lost > step]

\* Math.round(x) = floor(x + 0.5) of a non-negative double
MathRound(x) ==
    IF x.short THEN x.num \div x.den ELSE (2 * x.num + x.den) \div (2 * x.den)

\* Mutant of updateProgressBar: Math.floor in place of Math.round
updateProgressBar_floors(total, completed) ==
    IF total > 0 THEN (completed * 100) \div total ELSE 0

updateProgressBar(total, completed) ==
    IF total > 0 THEN MathRound(Times100(Divide(completed, total))) ELSE 0

\* Mutant of updateStats: every habit counts as completed
updateStats_countsAll(items) ==
    LET total == Len(items)
        maxStreak == IF Len(items) > 0 THEN MaxOf([i \in 1..Len(items) |-> items[i].streak]) ELSE 0
    IN [total |-> total, completed |-> total, maxStreak |-> maxStreak,
        percentage |-> updateProgressBar(total, total)]

\* The texts updateStats writes
updateStats(items) ==
    LET total == Len(items)
        completed == Len(filter(items, TRUE))
        maxStreak == IF Len(items) > 0 THEN MaxOf([i \in 1..Len(items) |-> items[i].streak]) ELSE 0
    IN [total |-> total, completed |-> completed, maxStreak |-> maxStreak,
        percentage |-> updateProgressBar(total, completed)]

(***************************************************************************)
(* Loading the page: the module-level initial values, then init().         *)
(***************************************************************************)
NoStats == [total |-> 0, completed |-> 0, maxStreak |-> 0, percentage |-> 0]

\* No setInterval call has been made (src/script.js makes none)
NoTimers == [started |-> 0, running |-> <<>>]

\* The value of `habits` after loadHabitsFromStorage, from the initial []
loadHabitsFromStorage(ls) ==
    IF ls.has /\ ls.text # <<>>
    THEN LET r == JSONparse(ls.text) IN IF r.ok THEN r.value ELSE Arr(<<>>)
    ELSE Arr(<<>>)

\* init(): renderHabits throws on a value that is no array, and the
\* statistics and the listeners are then never set up
init(ls) ==
    LET loaded == loadHabitsFromStorage(ls) IN
    IF IsArray(loaded)
    THEN [habits |-> loaded,
          cards |-> renderHabits(loaded.val, "all").cards,
          emptyState |-> renderHabits(loaded.val, "all").emptyState,
          stats |-> updateStats(loaded.val),
          listening |-> TRUE]
    ELSE [habits |-> loaded,
          cards |-> <<>>,
          emptyState |-> IF loaded.type = "null" THEN "block" ELSE "none",
          stats |-> NoStats,
          listening |-> FALSE]

\* What localStorage may hold when the page is first opened
Unterminated == <<[t |-> "["]>>
InitialStorage ==
    {[has |-> FALSE]} \cup
    {[has |-> TRUE, text |-> x] : x \in {<<>>, Unterminated, <<[t |-> "null", v |-> NULL]>>,
                                          <<[t |-> "num", v |-> 42]>>,
                                          <<[t |-> "{"], [t |-> "}"]>>,
                                          <<[t |-> "["], [t |-> "]"]>>}}

Init ==
    /\ localStorage \in InitialStorage
    /\ now = 0
    /\ currentFilter = "all"
    /\ LET page == init(localStorage) IN
       /\ habits = page.habits
       /\ habitsContainer = page.cards
       /\ emptyState = page.emptyState
       /\ statsEls = page.stats
       /\ listening = page.listening
    /\ errors = <<>>
    /\ toasts = <<>>
    /\ writeFailures = 0
    /\ timers = NoTimers

\* The user reloads the page: the script runs again on the stored item
Reload ==
    /\ currentFilter' = "all"
    /\ LET page == init(localStorage) IN
       /\ habits' = page.habits
       /\ habitsContainer' = page.cards
       /\ emptyState' = page.emptyState
       /\ statsEls' = page.stats
       /\ listening' = page.listening
    /\ errors' = <<>>
    /\ toasts' = <<>>
    /\ UNCHANGED <<timers, localStorage, now, writeFailures>>

\* Time passes
Tick ==
    /\ now < MaxClock
    /\ now' = now + 1
    /\ UNCHANGED <<timers, habits, currentFilter, localStorage, listening, habitsContainer,
                   emptyState, statsEls, errors, toasts, writeFailures>>

(***************************************************************************)
(* The handlers of src/script.js.                                          *)
(***************************************************************************)
\* Mutant of saveHabitsToStorage: nothing is written and nothing is reported
saveHabitsToStorage_dropsWrite(items, stored) ==
    [item |-> localStorage, toasts |-> <<>>]

\* Mutant of saveHabitsToStorage: after a failed write nothing is written
saveHabitsToStorage_givesUp(items, stored) ==
    [item |-> IF stored /\ writeFailures = 0
              THEN [has |-> TRUE, text |-> JSONstringify(Arr(items))] ELSE localStorage,
     toasts |-> IF stored THEN <<>> ELSE <<SaveFailedMsg>>]

\* saveHabitsToStorage: setItem stores the text, or throws (quota exceeded,
\* storage disabled) and the catch shows a toast.  `stored` is which happened.
saveHabitsToStorage(items, stored) ==
    [item |-> IF stored THEN [has |-> TRUE, text |-> JSONstringify(Arr(items))] ELSE localStorage,
     toasts |-> IF stored THEN <<>> ELSE <<SaveFailedMsg>>]

\* The common tail of the mutating handlers: save, render, stats, toast
SaveRenderToast(items, msg) ==
    \E stored \in BOOLEAN :
       /\ stored \/ writeFailures < MaxWriteFailures
       /\ writeFailures' = IF stored THEN writeFailures ELSE writeFailures + 1
       /\ LET saved == saveHabitsToStorage(items, stored)
           view == renderHabits(items, currentFilter)
          IN /\ habits' = Arr(items)
             /\ localStorage' = saved.item
             /\ habitsContainer' = view.cards
             /\ emptyState' = view.emptyState
             /\ statsEls' = updateStats(items)
             /\ toasts' = Append(saved.toasts, msg)
             /\ errors' = <<>>
             /\ UNCHANGED <<timers, currentFilter, now, listening>>

\* Mutant of newHabit: the streak starts at 1
newHabit_streakOne(name, category) ==
    [id |-> now, name |-> name, category |-> category, completed |-> FALSE,
     createdAt |-> toISOString(now), completedAt |-> NULL, streak |-> 1]

newHabit(name, category) ==
    [id |-> now, name |-> name, category |-> category, completed |-> FALSE,
     createdAt |-> toISOString(now), completedAt |-> NULL, streak |-> 0]

\* A validation failure: showError and return
showError(message) ==
    /\ errors' = <<message>>
    /\ toasts' = <<>>
    /\ UNCHANGED <<timers, habits, currentFilter, localStorage, now, listening, habitsContainer,
                   emptyState, statsEls, writeFailures>>

\* Mutant of handleAddHabit: the upper limit on the name is not checked
handleAddHabit_noMaximum(value, category) ==
    /\ listening
    /\ LET name == trim(value) IN
       IF name = <<>> THEN showError(EmptyNameMsg)
       ELSE IF length(name) < MinNameLength THEN showError(TooShortMsg)
       ELSE /\ Len(habits.val) < MaxHabits
            /\ SaveRenderToast(Append(habits.val, newHabit(name, category)), AddedMsg)

\* Mutant of handleAddHabit: unshift in place of push
handleAddHabit_prepends(value, category) ==
    /\ listening
    /\ LET name == trim(value) IN
       IF name = <<>> THEN showError(EmptyNameMsg)
       ELSE IF length(name) < MinNameLength THEN showError(TooShortMsg)
       ELSE IF length(name) > MaxNameLength THEN showError(TooLongMsg)
       ELSE /\ Len(habits.val) < MaxHabits
            /\ SaveRenderToast(<<newHabit(name, category)>> \o habits.val, AddedMsg)

handleAddHabit(value, category) ==
    /\ listening
    /\ LET name == trim(value) IN
       IF name = <<>> THEN showError(EmptyNameMsg)
       ELSE IF length(name) < MinNameLength THEN showError(TooShortMsg)
       ELSE IF length(name) > MaxNameLength THEN showError(TooLongMsg)
       ELSE /\ Len(habits.val) < MaxHabits
            /\ SaveRenderToast(Append(habits.val, newHabit(name, category)), AddedMsg)

\* Array.prototype.findIndex(h => h.id === habitId): 0 stands for -1
RECURSIVE findIndexFrom(_, _, _)
findIndexFrom(items, habitId, i) ==
    IF i > Len(items) THEN 0
    ELSE IF items[i].id = habitId THEN i
    ELSE findIndexFrom(items, habitId, i + 1)

findIndex(items, habitId) == findIndexFrom(items, habitId, 1)

\* Mutant of toggled: completedAt is not cleared
toggled_keepsCompletedAt(habit) ==
    IF ~habit.completed
    THEN [habit EXCEPT !.completed = TRUE, !.completedAt = toISOString(now), !.streak = @ + 1]
    ELSE [habit EXCEPT !.completed = FALSE]

\* Mutant of toggled: the streak counts every toggle
toggled_countsEveryToggle(habit) ==
    IF ~habit.completed
    THEN [habit EXCEPT !.completed = TRUE, !.completedAt = toISOString(now), !.streak = @ + 1]
    ELSE [habit EXCEPT !.completed = FALSE, !.completedAt = NULL, !.streak = @ + 1]

\* Mutant of toggled: un-completing takes the streak back
toggled_decrements(habit) ==
    IF ~habit.completed
    THEN [habit EXCEPT !.completed = TRUE, !.completedAt = toISOString(now), !.streak = @ + 1]
    ELSE [habit EXCEPT !.completed = FALSE, !.completedAt = NULL, !.streak = @ - 1]

\* Mutant of toggled: marking a habit incomplete resets its streak
toggled_resetsStreak(habit) ==
    IF ~habit.completed
    THEN [habit EXCEPT !.completed = TRUE, !.completedAt = toISOString(now), !.streak = @ + 1]
    ELSE [habit EXCEPT !.completed = FALSE, !.completedAt = NULL, !.streak = 0]

\* Mutant of toggled: completing a habit also stamps createdAt
toggled_stampsCreatedAt(habit) ==
    IF ~habit.completed
    THEN [habit EXCEPT !.completed = TRUE, !.completedAt = toISOString(now),
                       !.createdAt = toISOString(now), !.streak = @ + 1]
    ELSE [habit EXCEPT !.completed = FALSE, !.completedAt = NULL]

\* The habit as toggleHabitComplete leaves it
toggled(habit) ==
    IF ~habit.completed
    THEN [habit EXCEPT !.completed = TRUE, !.completedAt = toISOString(now), !.streak = @ + 1]
    ELSE [habit EXCEPT !.completed = FALSE, !.completedAt = NULL]

\* An early return
Return ==
    /\ errors' = <<>>
    /\ toasts' = <<>>
    /\ UNCHANGED <<timers, habits, currentFilter, localStorage, now, listening, habitsContainer,
                   emptyState, statsEls, writeFailures>>

\* Mutant of toggleHabitComplete: an id that no habit has still saves,
\* renders and shows the toast
toggleHabitComplete_savesAnyway(habitId) ==
    /\ listening
    /\ LET i == findIndex(habits.val, habitId) IN
       IF i = 0 THEN SaveRenderToast(habits.val, IncompleteMsg)
       ELSE /\ habits.val[i].completed \/ habits.val[i].streak < MaxStreak
            /\ SaveRenderToast([habits.val EXCEPT ![i] = toggled(@)],
                               IF toggled(habits.val[i]).completed THEN CompletedMsg ELSE IncompleteMsg)

toggleHabitComplete(habitId) ==
    /\ listening
    /\ LET i == findIndex(habits.val, habitId) IN
       IF i = 0 THEN Return
       ELSE /\ habits.val[i].completed \/ habits.val[i].streak < MaxStreak
            /\ SaveRenderToast([habits.val EXCEPT ![i] = toggled(@)],
                               IF toggled(habits.val[i]).completed THEN CompletedMsg ELSE IncompleteMsg)

\* Array.prototype.splice(i, 1)
splice(items, i) == SubSeq(items, 1, i - 1) \o SubSeq(items, i + 1, Len(items))

\* Mutant of deleteHabit: an id that no habit has takes the last habit out
\* (splice at index -1)
deleteHabit_spliceLast(habitId, confirmed) ==
    /\ listening
    /\ LET habitIndex == findIndex(habits.val, habitId) IN
       IF ~confirmed THEN Return
       ELSE IF habitIndex = 0
       THEN SaveRenderToast(splice(habits.val, Len(habits.val)), DeletedMsg)
       ELSE SaveRenderToast(splice(habits.val, habitIndex), DeletedMsg)

\* Mutant of deleteHabit: the answer to the confirmation is not looked at
deleteHabit_ignoresAnswer(habitId, confirmed) ==
    /\ listening
    /\ LET habitIndex == findIndex(habits.val, habitId) IN
       IF habitIndex = 0 THEN Return
       ELSE SaveRenderToast(splice(habits.val, habitIndex), DeletedMsg)

deleteHabit(habitId, confirmed) ==
    /\ listening
    /\ LET habitIndex == findIndex(habits.val, habitId) IN
       IF habitIndex = 0 THEN Return
       ELSE IF ~confirmed THEN Return
       ELSE SaveRenderToast(splice(habits.val, habitIndex), DeletedMsg)

\* Mutant of handleFilter: the filter result replaces the collection
handleFilter_filtersCollection(mode) ==
    /\ listening
    /\ currentFilter' = mode
    /\ habits' = Arr(getFilteredHabits(habits.val, mode))
    /\ LET view == renderHabits(habits.val, mode) IN
       /\ habitsContainer' = view.cards
       /\ emptyState' = view.emptyState
    /\ errors' = <<>>
    /\ toasts' = <<>>
    /\ UNCHANGED <<timers, localStorage, now, listening, statsEls, writeFailures>>

\* Mutant of handleFilter: the list is not rendered again
handleFilter_noRender(mode) ==
    /\ listening
    /\ currentFilter' = mode
    /\ errors' = <<>>
    /\ toasts' = <<>>
    /\ UNCHANGED <<timers, habits, localStorage, now, listening, statsEls, writeFailures,
                   habitsContainer, emptyState>>

handleFilter(mode) ==
    /\ listening
    /\ currentFilter' = mode
    /\ LET view == renderHabits(habits.val, mode) IN
       /\ habitsContainer' = view.cards
       /\ emptyState' = view.emptyState
    /\ errors' = <<>>
    /\ toasts' = <<>>
    /\ UNCHANGED <<timers, habits, localStorage, now, listening, statsEls, writeFailures>>

(***************************************************************************)
(* The inputs.                                                             *)
(***************************************************************************)
\* An input of the add form: the text typed (value), and for the properties
\* the text without its padding (core) and the length of that (n)
NameLengths == {0, 1, 2, 3, 50, 51}
Padded(s) == Str(" ", 1) \o s \o Str("\t", 1) \o Str(" ", 2)
AddInputs ==
    {[value |-> Str("a", n), core |-> Str("a", n), n |-> n, category |-> "health"] :
        n \in NameLengths}
    \cup {[value |-> Padded(Str("a", n)), core |-> Str("a", n), n |-> n, category |-> "gardening"] :
        n \in NameLengths}
IdInputs == 0..MaxClock

Next ==
    \/ Tick
    \/ Reload
    \/ \E in \in AddInputs : handleAddHabit(in.value, in.category)
    \/ \E habitId \in IdInputs : toggleHabitComplete(habitId)
    \/ \E habitId \in IdInputs, confirmed \in BOOLEAN : deleteHabit(habitId, confirmed)
    \/ \E mode \in Filters : handleFilter(mode)

Spec == Init /\ [][Next]_vars

(***************************************************************************)
(* The simplified variant, src/unnamed/part_000.  Its listeners are        *)
(* registered before the stored item is loaded, its saveToStorage has no   *)
(* try/catch, its habits have no completedAt, its addHabit has no upper    *)
(* limit on the name and its deleteHabit filters by id.                    *)
(***************************************************************************)
MarkedIncompleteMsg == "Marked incomplete"
HabitDeletedMsg == "Habit deleted"

InitSimple ==
    /\ localStorage \in InitialStorage
    /\ now = 0
    /\ currentFilter = "all"
    /\ LET page == init(localStorage) IN
       /\ habits = page.habits
       /\ habitsContainer = page.cards
       /\ emptyState = page.emptyState
       /\ statsEls = page.stats
    /\ listening = TRUE
    /\ errors = <<>>
    /\ toasts = <<>>
    /\ writeFailures = 0
    /\ timers = NoTimers

ReloadSimple ==
    /\ currentFilter' = "all"
    /\ LET page == init(localStorage) IN
       /\ habits' = page.habits
       /\ habitsContainer' = page.cards
       /\ emptyState' = page.emptyState
       /\ statsEls' = page.stats
    /\ errors' = <<>>
    /\ toasts' = <<>>
    /\ UNCHANGED <<timers, localStorage, now, listening, writeFailures>>

\* saveToStorage, then the rest of the handler; when setItem throws, the
\* exception leaves the handler before it renders
SaveThenRender(items, msg) ==
    \/ /\ localStorage' = [has |-> TRUE, text |-> JSONstringify(Arr(items))]
       /\ LET view == renderHabits(items, currentFilter) IN
          /\ habitsContainer' = view.cards
          /\ emptyState' = view.emptyState
       /\ habits' = Arr(items)
       /\ statsEls' = updateStats(items)
       /\ toasts' = <<msg>>
       /\ errors' = <<>>
       /\ UNCHANGED <<timers, currentFilter, now, listening, writeFailures>>
    \/ /\ writeFailures < MaxWriteFailures
       /\ writeFailures' = writeFailures + 1
       /\ habits' = Arr(items)
       /\ toasts' = <<>>
       /\ errors' = <<>>
       /\ UNCHANGED <<timers, currentFilter, localStorage, now, listening, habitsContainer,
                      emptyState, statsEls>>

newHabitSimple(name, category) ==
    [id |-> now, name |-> name, category |-> category, completed |-> FALSE,
     createdAt |-> toISOString(now), streak |-> 0]

\* A TypeError: `habits` is no array
Throw == Return

addHabit(value, category) ==
    LET name == trim(value) IN
    IF name = <<>> THEN showError(EmptyNameMsg)
    ELSE IF length(name) < MinNameLength THEN showError(TooShortMsg)
    ELSE IF ~IsArray(habits) THEN Throw
    ELSE /\ Len(habits.val) < MaxHabits
         /\ SaveThenRender(Append(habits.val, newHabitSimple(name, category)), AddedMsg)

toggledSimple(habit) ==
    IF ~habit.completed
    THEN [habit EXCEPT !.completed = TRUE, !.streak = @ + 1]
    ELSE [habit EXCEPT !.completed = FALSE]

toggleComplete(id) ==
    IF ~IsArray(habits) THEN Throw
    ELSE LET i == findIndex(habits.val, id) IN
         IF i = 0 THEN Return
         ELSE /\ habits.val[i].completed \/ habits.val[i].streak < MaxStreak
              /\ SaveThenRender([habits.val EXCEPT ![i] = toggledSimple(@)],
                                IF toggledSimple(habits.val[i]).completed
                                THEN CompletedMsg ELSE MarkedIncompleteMsg)

\* habits.filter(h => h.id !== id)
RECURSIVE withoutId(_, _)
withoutId(items, id) ==
    IF items = <<>> THEN <<>>
    ELSE (IF Head(items).id # id THEN <<Head(items)>> ELSE <<>>) \o withoutId(Tail(items), id)

deleteHabitSimple(id, confirmed) ==
    IF ~IsArray(habits) THEN Throw
    ELSE IF findIndex(habits.val, id) = 0 THEN Return
    ELSE IF ~confirmed THEN Return
    ELSE SaveThenRender(withoutId(habits.val, id), HabitDeletedMsg)

\* currentFilter is assigned before renderHabits throws on a non-array
setFilter(mode) ==
    /\ currentFilter' = mode
    /\ IF IsArray(habits)
       THEN LET view == renderHabits(habits.val, mode) IN
            /\ habitsContainer' = view.cards
            /\ emptyState' = view.emptyState
       ELSE /\ habitsContainer' = <<>>
            /\ emptyState' = IF habits.type = "null" THEN emptyState ELSE "none"
    /\ errors' = <<>>
    /\ toasts' = <<>>
    /\ UNCHANGED <<timers, habits, localStorage, now, listening, statsEls, writeFailures>>

NextSimple ==
    \/ Tick
    \/ ReloadSimple
    \/ \E in \in AddInputs : addHabit(in.value, in.category)
    \/ \E id \in IdInputs : toggleComplete(id)
    \/ \E id \in IdInputs, confirmed \in BOOLEAN : deleteHabitSimple(id, confirmed)
    \/ \E mode \in Filters : setFilter(mode)

SpecSimple == InitSimple /\ [][NextSimple]_vars

(***************************************************************************)
(* src/script.js opened on the collection an earlier session has saved:    *)
(* the page load (parse, render, statistics) and the filter buttons, on    *)
(* collections of up to MaxStored habits.  The earlier session's clock     *)
(* values lie before this session's (they are negative).                   *)
(***************************************************************************)
\* How the earlier session left a habit: never completed, completed once, or
\* completed twice and marked incomplete again
StoredKinds == {"new", "done", "undone"}

StoredHabit(i, kind) ==
    LET t == i - 1 - MaxStored IN
    [id |-> t, name |-> Str("a", MinNameLength), category |-> "health",
     completed |-> (kind = "done"), createdAt |-> toISOString(t),
     completedAt |-> IF kind = "done" THEN toISOString(t) ELSE NULL,
     streak |-> CASE kind = "new" -> 0 [] kind = "done" -> 1 [] OTHER -> 2]

\* The collections the earlier session may have left, by the kinds of their
\* habits (at most one of them "undone"), and the text saveHabitsToStorage
\* has stored for one
StoredKindSeqs ==
    {kinds \in UNION {[1..n -> StoredKinds] : n \in 0..MaxStored} :
        \A i, j \in DOMAIN kinds : (kinds[i] = "undone" /\ kinds[j] = "undone") => i = j}

StoredText(kinds) ==
    JSONstringify(Arr([i \in DOMAIN kinds |-> StoredHabit(i, kinds[i])]))

InitStored ==
    /\ \E kinds \in StoredKindSeqs : localStorage = [has |-> TRUE, text |-> StoredText(kinds)]
    /\ now = 0
    /\ currentFilter = "all"
    /\ LET page == init(localStorage) IN
       /\ habits = page.habits
       /\ habitsContainer = page.cards
       /\ emptyState = page.emptyState
       /\ statsEls = page.stats
       /\ listening = page.listening
    /\ errors = <<>>
    /\ toasts = <<>>
    /\ writeFailures = 0
    /\ timers = NoTimers

NextStored ==
    \/ Reload
    \/ \E mode \in Filters : handleFilter(mode)

SpecStored == InitStored /\ [][NextStored]_vars

(***************************************************************************)
(* src/script.js opened on a saved collection of up to MaxProgress habits  *)
(* of which the first few are completed: the progress percentage of every  *)
(* pair (completed, total).                                                *)
(***************************************************************************)
ProgressHabit(i, completed) ==
    LET t == i - 1 - MaxProgress IN
    [id |-> t, name |-> Str("a", MinNameLength), category |-> "health",
     completed |-> (i <= completed), createdAt |-> toISOString(t),
     completedAt |-> IF i <= completed THEN toISOString(t) ELSE NULL,
     streak |-> IF i <= completed THEN 1 ELSE 0]

ProgressText(total, completed) ==
    JSONstringify(Arr([i \in 1..total |-> ProgressHabit(i, completed)]))

InitProgress ==
    /\ \E total \in 0..MaxProgress : \E completed \in 0..total :
           localStorage = [has |-> TRUE, text |-> ProgressText(total, completed)]
    /\ now = 0
    /\ currentFilter = "all"
    /\ LET page == init(localStorage) IN
       /\ habits = page.habits
       /\ habitsContainer = page.cards
       /\ emptyState = page.emptyState
       /\ statsEls = page.stats
       /\ listening = page.listening
    /\ errors = <<>>
    /\ toasts = <<>>
    /\ writeFailures = 0
    /\ timers = NoTimers

NextProgress ==
    \/ Reload
    \/ \E mode \in Filters : handleFilter(mode)

SpecProgress == InitProgress /\ [][NextProgress]_vars

(***************************************************************************)
(* src/script.js opened for the first time (nothing stored) or on three    *)
(* habits an earlier session has saved, the user working with the habit    *)
(* "Drink Water" and with the saved habits.                                *)
(***************************************************************************)
DrinkWater ==
    Str("D", 1) \o Str("r", 1) \o Str("i", 1) \o Str("n", 1) \o Str("k", 1) \o Str(" ", 1)
    \o Str("W", 1) \o Str("a", 1) \o Str("t", 1) \o Str("e", 1) \o Str("r", 1)

ScenarioInputs == {[value |-> DrinkWater, category |-> "health"]}

SavedKinds == <<"new", "done", "undone">>
SavedIds == {StoredHabit(i, SavedKinds[i]).id : i \in DOMAIN SavedKinds}
ScenarioIds == IdInputs \cup SavedIds

InitScenario ==
    /\ localStorage \in {[has |-> FALSE], [has |-> TRUE, text |-> StoredText(SavedKinds)]}
    /\ now = 0
    /\ currentFilter = "all"
    /\ LET page == init(localStorage) IN
       /\ habits = page.habits
       /\ habitsContainer = page.cards
       /\ emptyState = page.emptyState
       /\ statsEls = page.stats
       /\ listening = page.listening
    /\ errors = <<>>
    /\ toasts = <<>>
    /\ writeFailures = 0
    /\ timers = NoTimers

NextScenario ==
    \/ Tick
    \/ Reload
    \/ \E in \in ScenarioInputs : handleAddHabit(in.value, in.category)
    \/ \E habitId \in ScenarioIds : toggleHabitComplete(habitId)
    \/ \E habitId \in ScenarioIds, confirmed \in BOOLEAN : deleteHabit(habitId, confirmed)
    \/ \E mode \in Filters : handleFilter(mode)

SpecScenario == InitScenario /\ [][NextScenario]_vars

(***************************************************************************)
(* The variant with the animated statistics, src/unnamed/part_001.  Its    *)
(* handlers are those of src/script.js, but its updateStats writes the     *)
(* percentage only and starts, for each of the three counters, an          *)
(* animateValue timer that writes the counter every 16 ms.  A timer is     *)
(* [el, current, increment, end]: current and increment are counted in     *)
(* units of 1/FracUnit, so that increment = range / (500 / 16) is the      *)
(* integer 4 * range.  The timers all have the same period, so they fire   *)
(* in turn: timers.running is the queue of the running timers, and        *)
(* timers.started counts the handles setInterval has returned.  The page   *)
(* is opened for the first time or on one saved habit.                     *)
(***************************************************************************)
FracUnit == 125
Counters == <<"total", "completed", "maxStreak">>

\* const timer = setInterval(...) of animateValue(element, start, end, 500)
animateValue(el, start, end) ==
    [el |-> el, current |-> FracUnit * start, increment |-> 4 * (end - start), end |-> end]

\* One run of the interval callback: the timer afterwards, whether it has
\* cleared itself, and the text Math.round(current) it writes
callback(timer) ==
    LET current == timer.current + timer.increment
        done == \/ timer.increment > 0 /\ current >= FracUnit * timer.end
                \/ timer.increment < 0 /\ current <= FracUnit * timer.end
        shown == IF done THEN FracUnit * timer.end ELSE current
    IN [timer |-> [timer EXCEPT !.current = shown],
        cleared |-> done,
        text |-> (2 * shown + FracUnit) \div (2 * FracUnit)]

\* The interval of the timer at the head of the queue elapses
TimerFires ==
    /\ timers.running # <<>>
    /\ LET first == Head(timers.running)
           others == Tail(timers.running)
           run == callback(first)
       IN /\ statsEls' = [statsEls EXCEPT ![first.el] = run.text]
          /\ timers' = [timers EXCEPT
                           !.running = IF run.cleared THEN others ELSE Append(others, run.timer)]
    /\ UNCHANGED <<habits, currentFilter, localStorage, now, listening, habitsContainer,
                   emptyState, errors, toasts, writeFailures>>

\* updateStats of part_001: the three timers it starts, each from the
\* number its element shows, and the texts right after it (only the
\* percentage is written at once)
updateStatsAnimated(items, shown) ==
    LET stats == updateStats(items) IN
    [timers |-> [i \in DOMAIN Counters |->
                    animateValue(Counters[i], shown[Counters[i]], stats[Counters[i]])],
     texts |-> [shown EXCEPT !.percentage = stats.percentage]]

InitAnimated ==
    /\ localStorage \in {[has |-> FALSE], [has |-> TRUE, text |-> StoredText(<<"done">>)]}
    /\ now = 0
    /\ currentFilter = "all"
    /\ LET page == init(localStorage)
           started == updateStatsAnimated(page.habits.val, NoStats)
       IN /\ habits = page.habits
          /\ habitsContainer = page.cards
          /\ emptyState = page.emptyState
          /\ statsEls = started.texts
          /\ timers = [started |-> Len(Counters), running |-> started.timers]
          /\ listening = page.listening
    /\ errors = <<>>
    /\ toasts = <<>>
    /\ writeFailures = 0

\* saveHabitsToStorage(); renderHabits(); updateStats(); showToast(msg)
SaveRenderAnimateToast(items, msg) ==
    \E stored \in BOOLEAN :
       /\ stored \/ writeFailures < MaxWriteFailures
       /\ timers.started + Len(Counters) <= MaxTimers
       /\ writeFailures' = IF stored THEN writeFailures ELSE writeFailures + 1
       /\ LET saved == saveHabitsToStorage(items, stored)
              view == renderHabits(items, currentFilter)
              started == updateStatsAnimated(items, statsEls)
          IN /\ habits' = Arr(items)
             /\ localStorage' = saved.item
             /\ habitsContainer' = view.cards
             /\ emptyState' = view.emptyState
             /\ statsEls' = started.texts
             /\ timers' = [started |-> timers.started + Len(Counters),
                           running |-> timers.running \o started.timers]
             /\ toasts' = Append(saved.toasts, msg)
             /\ errors' = <<>>
             /\ UNCHANGED <<currentFilter, now, listening>>

handleAddHabitAnimated(value, category) ==
    /\ listening
    /\ LET name == trim(value) IN
       IF name = <<>> THEN showError(EmptyNameMsg)
       ELSE IF length(name) < MinNameLength THEN showError(TooShortMsg)
       ELSE IF length(name) > MaxNameLength THEN showError(TooLongMsg)
       ELSE /\ Len(habits.val) < MaxHabits
            /\ SaveRenderAnimateToast(Append(habits.val, newHabit(name, category)), AddedMsg)

toggleHabitCompleteAnimated(habitId) ==
    /\ listening
    /\ LET i == findIndex(habits.val, habitId) IN
       IF i = 0 THEN Return
       ELSE /\ habits.val[i].completed \/ habits.val[i].streak < MaxStreak
            /\ SaveRenderAnimateToast([habits.val EXCEPT ![i] = toggled(@)],
                                      IF toggled(habits.val[i]).completed
                                      THEN CompletedMsg ELSE IncompleteMsg)

deleteHabitAnimated(habitId, confirmed) ==
    /\ listening
    /\ LET habitIndex == findIndex(habits.val, habitId) IN
       IF habitIndex = 0 THEN Return
       ELSE IF ~confirmed THEN Return
       ELSE SaveRenderAnimateToast(splice(habits.val, habitIndex), DeletedMsg)

NextAnimated ==
    \/ TimerFires
    \/ \E in \in ScenarioInputs : handleAddHabitAnimated(in.value, in.category)
    \/ \E habitId \in ScenarioIds : toggleHabitCompleteAnimated(habitId)
    \/ \E habitId \in ScenarioIds, confirmed \in BOOLEAN : deleteHabitAnimated(habitId, confirmed)

SpecAnimated == InitAnimated /\ [][NextAnimated]_vars

(***************************************************************************)
(* Properties.                                                             *)
(***************************************************************************)
Items == IF IsArray(habits) THEN habits.val ELSE <<>>

\* The stored item is the serialization of the in-memory collection
InSync == localStorage = [has |-> TRUE, text |-> JSONstringify(habits)]

\* completedAt is present: the key exists and its value is not null
HasCompletedAt(h) == HasKey(h, "completedAt") /\ h.completedAt # NULL

\* C1: in every reachable state no two habits of the collection have the
\* same id, also when two adds read the same clock value.
C1_UniqueIds ==
    \A i, j \in DOMAIN Items : i # j => Items[i].id # Items[j].id

\* C2: after each mutating operation (a valid add, a toggle of an existing
\* id, a confirmed delete) has returned, the stored item is the serialization
\* of the in-memory collection.  A mutating handler is the only one that
\* calls showToast, so toasts # <<>> says the last handler was one.
C2_PersistedAfterMutation ==
    toasts # <<>> => InSync

\* C2, amended: the same, for the mutating operations whose store write did
\* not fail (no 'Failed to save data!' toast).
C2_PersistedAfterSavedMutation ==
    (toasts # <<>> /\ toasts[1] # SaveFailedMsg) => InSync

C2_Witness ==
    /\ toasts = <<CompletedMsg>>
    /\ Len(Items) = 2
    /\ writeFailures = 1
    /\ InSync

\* C3: for every habit in every reachable state, completed is true exactly
\* when completedAt is present.
C3_CompletedIffCompletedAt ==
    \A i \in DOMAIN Items : Items[i].completed <=> HasCompletedAt(Items[i])

\* C4: for every name whose trimmed length is in [3,50] and every category,
\* add turns a collection of size n into one of size n+1 whose first n
\* elements are unchanged and whose last element has the trimmed name,
\* completed = false, streak = 0 and no completedAt.
C4_AddAppends ==
    [][\A in \in AddInputs :
          (in.n >= 3 /\ in.n <= 50 /\ handleAddHabit(in.value, in.category)) =>
             LET old == habits.val
                 new == habits'.val
                 last == new[Len(new)]
             IN /\ Len(new) = Len(old) + 1
                /\ SubSeq(new, 1, Len(old)) = old
                /\ last.name = in.core
                /\ last.category = in.category
                /\ last.completed = FALSE
                /\ last.streak = 0
                /\ ~HasCompletedAt(last)]_vars

C4_Witness ==
    /\ toasts = <<AddedMsg>>
    /\ Len(Items) = 2
    /\ Items[2].name = Str("a", 50)
    /\ Items[2].category = "gardening"
    /\ Items[1].completed

\* C5: add with a name of trimmed length 0 (also one of whitespace only)
\* fails with the EmptyName signal, with trimmed length 1 or 2 with the
\* distinct TooShort signal, and the collection is unchanged.
C5_EmptyAndTooShortRejected ==
    [][\A in \in AddInputs :
          (in.n < 3 /\ handleAddHabit(in.value, in.category)) =>
             /\ in.n = 0 => (errors' = <<EmptyNameMsg>> /\ habits' = habits)
             /\ in.n \in {1, 2} => (errors' = <<TooShortMsg>> /\ habits' = habits)
             /\ EmptyNameMsg # TooShortMsg]_vars

C5_Witness ==
    /\ errors = <<TooShortMsg>>
    /\ Len(Items) = 1

\* C6: add with a name of trimmed length above 50 fails with the TooLong
\* signal and leaves the collection unchanged; a name of trimmed length 50
\* is accepted.  Stated of addHabit, the add of the simplified variant.
C6_TooLongRejected ==
    [][\A in \in AddInputs :
          (addHabit(in.value, in.category) /\ IsArray(habits)) =>
             /\ in.n > 50 => (errors' = <<TooLongMsg>> /\ habits' = habits)
             /\ in.n = 50 => Len(habits'.val) = Len(habits.val) + 1]_vars

\* C7: an add that fails validation (EmptyName, TooShort, TooLong) appends
\* nothing and performs no write to the store: only the error shown changes.
C7_RejectedAddHasNoEffect ==
    [][\A in \in AddInputs :
          ((in.n < 3 \/ in.n > 50) /\ handleAddHabit(in.value, in.category)) =>
             /\ errors' # <<>>
             /\ toasts' = <<>>
             /\ UNCHANGED <<habits, localStorage, writeFailures, habitsContainer,
                            emptyState, statsEls, currentFilter>>]_vars

C7_Witness ==
    /\ errors = <<TooLongMsg>>
    /\ ~localStorage.has
    /\ Items = <<>>

\* The first habit with the id, the one Array.prototype.find returns
FirstWithId(items, id) ==
    CHOOSE i \in DOMAIN items :
        items[i].id = id /\ \A j \in 1..(i - 1) : items[j].id # id

\* C8: toggle(id) on an existing habit (the first with that id) flips
\* completed; incomplete -> completed sets completedAt to the current time
\* and adds exactly 1 to streak; completed -> incomplete clears completedAt
\* and leaves streak unchanged.
C8_ToggleFlips ==
    [][\A id \in IdInputs :
          (toggleHabitComplete(id) /\ \E i \in DOMAIN habits.val : habits.val[i].id = id) =>
             LET i == FirstWithId(habits.val, id)
                 before == habits.val[i]
                 after == habits'.val[i]
             IN /\ after.completed = ~before.completed
                /\ ~before.completed =>
                      /\ after.completedAt = toISOString(now)
                      /\ after.streak = before.streak + 1
                /\ before.completed =>
                      /\ after.completedAt = NULL
                      /\ after.streak = before.streak]_vars

C8_Witness ==
    /\ toasts = <<IncompleteMsg>>
    /\ \E i \in DOMAIN Items :
          /\ ~Items[i].completed
          /\ Items[i].completedAt = NULL
          /\ Items[i].streak = 2

\* C9: whatever the habit's starting completed value, toggle applied twice
\* in succession returns completed to its original value and completedAt
\* to absent, and leaves streak exactly 1 higher.
C9_ToggleTwiceClearsCompletedAt ==
    \A i \in DOMAIN Items :
        LET twice == toggled(toggled(Items[i])) IN
        /\ twice.completed = Items[i].completed
        /\ twice.completedAt = NULL
        /\ twice.streak = Items[i].streak + 1

\* C9, amended: toggle applied twice in succession returns completed to its
\* original value and leaves streak exactly 1 higher; completedAt is absent
\* afterwards when the habit started incomplete, and is the time of the
\* second toggle when it started completed.
C9_ToggleTwice ==
    \A i \in DOMAIN Items :
        LET twice == toggled(toggled(Items[i])) IN
        /\ twice.completed = Items[i].completed
        /\ twice.streak = Items[i].streak + 1
        /\ twice.completedAt = IF Items[i].completed THEN toISOString(now) ELSE NULL

C9_Witness ==
    /\ Len(Items) = 2
    /\ Items[1].completed /\ Items[1].streak = 2 /\ Items[1].completedAt = toISOString(0)
    /\ ~Items[2].completed /\ Items[2].streak = 1
    /\ now = 1

\* The ids that name exactly one habit of the collection
Occurrences(items, id) == Cardinality({i \in DOMAIN items : items[i].id = id})

\* C10: a habit's streak is a non-negative integer that never decreases
\* from one state to the next while the habit exists.  A habit is followed
\* by its id, where the id names one habit before and after the step.
C10_StreakNeverDecreasesInAnyStep ==
    [][(IsArray(habits) /\ IsArray(habits')) =>
          \A i \in DOMAIN habits.val, j \in DOMAIN habits'.val :
              ( /\ habits.val[i].id = habits'.val[j].id
                /\ Occurrences(habits.val, habits.val[i].id) = 1
                /\ Occurrences(habits'.val, habits.val[i].id) = 1 )
              => habits'.val[j].streak >= habits.val[i].streak]_vars

\* The habits of `old` are those of `new` in the same places, none with a
\* lower streak, or `new` is `old` with one habit removed
StreaksKept(old, new) ==
    IF Len(new) >= Len(old)
    THEN \A i \in DOMAIN old :
            /\ new[i].id = old[i].id
            /\ new[i].streak >= old[i].streak
    ELSE \E k \in DOMAIN old : new = splice(old, k)

\* C10, amended: a habit's streak is a non-negative integer that never
\* decreases in a step of add, toggle, delete or filter change, nor in a
\* reload taken while the stored item is the serialization of the
\* collection (a reload after a failed write restores the stored streak).
C10_StreakNeverDecreases ==
    /\ [](\A i \in DOMAIN Items : Items[i].streak \in Nat)
    /\ [][(listening /\ (Reload => InSync)) => StreaksKept(habits.val, habits'.val)]_vars

C10_Witness ==
    /\ toasts = <<IncompleteMsg>>
    /\ Len(Items) = 2
    /\ Items[1].streak = 2
    /\ ~Items[1].completed
    /\ Items[2].streak = 0

\* C11: for every collection reachable by add, toggle and delete, parsing
\* the text JSON.stringify produces gives back the collection (same habits,
\* same keys and values, same order); so when the stored item is that text
\* (the last write succeeded), loading the page again gives `habits` the
\* value it has now.
C11_ReloadRoundTrip ==
    IsArray(habits) =>
        /\ JSONparse(JSONstringify(habits)) = [ok |-> TRUE, value |-> habits]
        /\ InSync => init(localStorage).habits = habits

C11_Witness ==
    /\ InSync
    /\ toasts = <<>>
    /\ Len(Items) = 2
    /\ Items[1].completed /\ Items[1].completedAt = toISOString(1) /\ Items[1].streak = 2
    /\ ~Items[2].completed /\ Items[2].name = Str("a", 50)
    /\ writeFailures = 1

\* The stored item is there and not empty, and either JSON.parse throws on
\* it or what it parses to is no array
Unreadable(ls) ==
    /\ ls.has
    /\ ls.text # <<>>
    /\ LET r == JSONparse(ls.text) IN ~r.ok \/ ~IsArray(r.value)

\* C12: loading the page on a stored item that is malformed or that does not
\* decode to a collection of habits leaves the in-memory collection empty,
\* and init runs to its end (the listeners are registered).
C12_UnreadableLoadsEmpty ==
    Unreadable(localStorage) =>
        LET page == init(localStorage) IN
        /\ page.habits = Arr(<<>>)
        /\ page.listening

\* C13: when the store write fails during an add, a toggle or a delete, the
\* handler shows the 'Failed to save data!' notification, keeps the mutation
\* of the in-memory collection, and still renders the view and updates the
\* statistics from the mutated collection.  Stated of the handlers of the
\* simplified variant as well, whose saveToStorage the claim names.
C13_WriteFailureIsReported ==
    [][writeFailures' = writeFailures + 1 =>
          /\ \E k \in DOMAIN toasts' : toasts'[k] = SaveFailedMsg
          /\ habits' # habits
          /\ localStorage' = localStorage
          /\ habitsContainer' = renderHabits(habits'.val, currentFilter').cards
          /\ emptyState' = renderHabits(habits'.val, currentFilter').emptyState
          /\ statsEls' = updateStats(habits'.val)]_vars

\* C14: no handler terminates abnormally.  init returns after registering
\* the listeners and leaves a collection the handlers can work on, so the
\* operations that follow are processed; a failed store write is signalled
\* by the 'Failed to save data!' toast and a validation failure by an error
\* message.
C14_NoHandlerFails ==
    /\ [](listening /\ IsArray(habits))
    /\ [][writeFailures' = writeFailures + 1 =>
             \E k \in DOMAIN toasts' : toasts'[k] = SaveFailedMsg]_vars
    /\ [][\A in \in AddInputs :
             ((in.n < 3 \/ in.n > 50) /\ handleAddHabit(in.value, in.category)) =>
                errors' # <<>>]_vars

\* C15: a confirmed delete(id) of an id that some habit has leaves a
\* collection that is one shorter, has no habit with that id, and has all
\* the other habits in their original relative order.
C15_DeleteRemoves ==
    [][\A id \in IdInputs :
          (deleteHabit(id, TRUE) /\ \E i \in DOMAIN habits.val : habits.val[i].id = id) =>
             /\ Len(habits'.val) = Len(habits.val) - 1
             /\ \A j \in DOMAIN habits'.val : habits'.val[j].id # id
             /\ habits'.val = SelectSeq(habits.val, LAMBDA h : h.id # id)]_vars

\* C16: delete(id) of an id that no habit has is a no-op: the collection is
\* unchanged, nothing is written to the store, no toast is shown, and the
\* user is not asked to confirm (the step is the same whatever the answer
\* to the prompt would be); the view and the statistics stay as they are.
C16_DeleteOfMissingIdIsNoOp ==
    [][\A id \in IdInputs, confirmed \in BOOLEAN :
          (listening /\ Occurrences(habits.val, id) = 0 /\ deleteHabit(id, confirmed)) =>
             /\ habits' = habits
             /\ localStorage' = localStorage
             /\ writeFailures' = writeFailures
             /\ toasts' = <<>>
             /\ deleteHabit(id, ~confirmed)
             /\ UNCHANGED <<habitsContainer, emptyState, statsEls, currentFilter>>]_vars

C16_Witness ==
    /\ toasts = <<>>
    /\ errors = <<>>
    /\ Len(Items) = 1
    /\ Items[1].id = 1
    /\ ~Items[1].completed
    /\ ~localStorage.has
    /\ writeFailures = 1
    /\ listening

\* C17: toggle(id) of an id that no habit has is a no-op: the collection is
\* unchanged element by element and nothing is written to the store.
C17_ToggleOfMissingIdIsNoOp ==
    [][\A id \in IdInputs :
          (listening /\ Occurrences(habits.val, id) = 0 /\ toggleHabitComplete(id)) =>
             /\ habits' = habits
             /\ localStorage' = localStorage
             /\ writeFailures' = writeFailures
             /\ toasts' = <<>>
             /\ UNCHANGED <<habitsContainer, emptyState, statsEls, currentFilter>>]_vars

C17_Witness ==
    /\ toasts = <<>>
    /\ errors = <<>>
    /\ Len(Items) = 1
    /\ Items[1].id = 0
    /\ Items[1].completed
    /\ Items[1].streak = 2
    /\ ~InSync
    /\ writeFailures = 1
    /\ listening

Elems(seq) == {seq[i] : i \in DOMAIN seq}

\* C18: for every collection, what the Active filter returns and what the
\* Completed filter returns have no habit in common and together are the
\* whole collection: every habit is in exactly one of the two.
C18_ActiveAndCompletedPartition ==
    LET active == getFilteredHabits(Items, "active")
        completed == getFilteredHabits(Items, "completed")
    IN /\ Elems(active) \cap Elems(completed) = {}
       /\ Elems(active) \cup Elems(completed) = Elems(Items)
       /\ Len(active) + Len(completed) = Len(Items)
       /\ \A i \in DOMAIN Items :
             (\E j \in DOMAIN active : active[j] = Items[i])
                 # (\E j \in DOMAIN completed : completed[j] = Items[i])

C18_Witness ==
    /\ currentFilter = "active"
    /\ Len(Items) = 8
    /\ Len(habitsContainer) = 3
    /\ Items[8].completed
    /\ ~Items[1].completed

\* The i-th smallest member of the set S of indices
Nth(S, i) == CHOOSE k \in S : Cardinality({m \in S : m < k}) = i - 1

\* The indices of the habits that the filter mode asks for
Wanted(items, mode) ==
    {k \in DOMAIN items :
        \/ mode = "all"
        \/ mode = "active" /\ items[k].completed = FALSE
        \/ mode = "completed" /\ items[k].completed = TRUE}

\* C19: for every collection and every filter mode, the filter result is
\* the habits the mode asks for (All: every habit; Active: completed =
\* false; Completed: completed = true), each once, in the order they have
\* in the collection; for All it is the collection itself.
C19_FilterIsOrderedSelection ==
    \A mode \in Filters :
        LET result == getFilteredHabits(Items, mode)
            S == Wanted(Items, mode)
        IN /\ Len(result) = Cardinality(S)
           /\ \A i \in DOMAIN result : result[i] = Items[Nth(S, i)]
           /\ mode = "all" => result = Items

C19_Witness ==
    /\ currentFilter = "completed"
    /\ Len(Items) = 8
    /\ ~Items[1].completed
    /\ Len(habitsContainer) = 2
    /\ habitsContainer[1].id < habitsContainer[2].id

C21_PercentageRoundsHalfUp ==
    (listening /\ Len(Items) > 0) =>
        statsEls.percentage =
            (200 * Len(filter(Items, TRUE)) + Len(Items)) \div (2 * Len(Items))

(***************************************************************************)
(* C22: the end-to-end scenario.  From the empty collection, adding        *)
(* "Drink Water" (health) gives one habit and the statistics 1, 0, 0, 0%;  *)
(* toggling it gives 1, 1, 1, 100% and streak 1; toggling it again gives   *)
(* 1, 0, 1, 0% and streak still 1; deleting it (confirmed) gives the empty *)
(* collection and the statistics 0, 0, 0, 0%.  Each step starts in the     *)
(* state the step before it ends in.                                       *)
(***************************************************************************)
ScenarioStats(completed, maxStreak, percentage) ==
    [total |-> 1, completed |-> completed, maxStreak |-> maxStreak, percentage |-> percentage]

OnlyDrinkWater(completed, streak) ==
    /\ listening
    /\ Len(habits.val) = 1
    /\ habits.val[1].name = DrinkWater
    /\ habits.val[1].category = "health"
    /\ habits.val[1].completed = completed
    /\ habits.val[1].streak = streak

C22_Scenario ==
    /\ [][(listening /\ habits = Arr(<<>>) /\ handleAddHabit(DrinkWater, "health")) =>
             (/\ OnlyDrinkWater(FALSE, 0)'
              /\ statsEls' = ScenarioStats(0, 0, 0))]_vars
    /\ [][(/\ OnlyDrinkWater(FALSE, 0)
           /\ statsEls = ScenarioStats(0, 0, 0)
           /\ toggleHabitComplete(habits.val[1].id)) =>
             (/\ OnlyDrinkWater(TRUE, 1)'
              /\ statsEls' = ScenarioStats(1, 1, 100))]_vars
    /\ [][(/\ OnlyDrinkWater(TRUE, 1)
           /\ statsEls = ScenarioStats(1, 1, 100)
           /\ toggleHabitComplete(habits.val[1].id)) =>
             (/\ OnlyDrinkWater(FALSE, 1)'
              /\ statsEls' = ScenarioStats(0, 1, 0))]_vars
    /\ [][(/\ OnlyDrinkWater(FALSE, 1)
           /\ statsEls = ScenarioStats(0, 1, 0)
           /\ deleteHabit(habits.val[1].id, TRUE)) =>
             (/\ habits' = Arr(<<>>)
              /\ habitsContainer' = <<>>
              /\ statsEls' = NoStats)]_vars

\* The scenario after its third step: added, completed, marked incomplete
C22_Witness ==
    /\ OnlyDrinkWater(FALSE, 1)
    /\ statsEls = ScenarioStats(0, 1, 0)
    /\ toasts = <<IncompleteMsg>>

(***************************************************************************)
(* C23: the collection keeps insertion order.  An accepted add leaves the  *)
(* old habits where they were and puts the new one behind them; a toggle   *)
(* leaves every position to the habit that had it; a delete takes one      *)
(* position out and leaves the others in their order; hence the habits     *)
(* always stand in the order of their creation.                            *)
(***************************************************************************)
SameHabit(a, b) == a.id = b.id /\ a.name = b.name /\ a.createdAt = b.createdAt

C23_InsertionOrderKept ==
    /\ [](listening =>
            \A i, j \in DOMAIN habits.val :
               i < j => habits.val[i].createdAt.iso <= habits.val[j].createdAt.iso)
    /\ [][\A in \in ScenarioInputs :
            (listening /\ handleAddHabit(in.value, in.category) /\ habits' # habits) =>
               /\ Len(habits'.val) = Len(habits.val) + 1
               /\ SubSeq(habits'.val, 1, Len(habits.val)) = habits.val
               /\ habits'.val[Len(habits'.val)].createdAt = toISOString(now)]_vars
    /\ [][\A id \in ScenarioIds :
            (listening /\ toggleHabitComplete(id)) =>
               /\ Len(habits'.val) = Len(habits.val)
               /\ \A i \in DOMAIN habits.val : SameHabit(habits'.val[i], habits.val[i])]_vars
    /\ [][\A id \in ScenarioIds, confirmed \in BOOLEAN :
            (listening /\ deleteHabit(id, confirmed) /\ habits' # habits) =>
               \E k \in DOMAIN habits.val :
                  /\ Len(habits'.val) = Len(habits.val) - 1
                  /\ \A i \in 1..(k - 1) : habits'.val[i] = habits.val[i]
                  /\ \A i \in k..Len(habits'.val) : habits'.val[i] = habits.val[i + 1]]_vars

\* The last saved habit, then a habit added in this session: two deletes
\* and an add have happened
C23_Witness ==
    /\ listening
    /\ Len(habits.val) = 2
    /\ habits.val[1].id = StoredHabit(3, SavedKinds[3]).id
    /\ habits.val[2].name = DrinkWater

(***************************************************************************)
(* C24: every habit of the collection, the habits restored by a page load  *)
(* included, has a name that is not empty, has no whitespace around it and *)
(* is 3 to 50 characters long.                                             *)
(***************************************************************************)
C24_NamesValid ==
    \A i \in DOMAIN Items :
       /\ Items[i].name # <<>>
       /\ trim(Items[i].name) = Items[i].name
       /\ length(Items[i].name) >= MinNameLength
       /\ length(Items[i].name) <= MaxNameLength

(***************************************************************************)
(* C25: whenever a handler (add, toggle, delete, filter change) has        *)
(* returned, the cards on the page are the cards of the habits the current *)
(* filter mode asks for, each once and in the order of the collection, and *)
(* the statistics on the page are those of the whole collection.           *)
(***************************************************************************)
C25_ViewInSync ==
    listening =>
        LET S == Wanted(Items, currentFilter) IN
        /\ Len(habitsContainer) = Cardinality(S)
        /\ \A i \in DOMAIN habitsContainer :
              habitsContainer[i] = createHabitCard(Items[Nth(S, i)])
        /\ statsEls = updateStats(Items)
        /\ statsEls.total = Len(Items)
        /\ statsEls.completed = Cardinality(Wanted(Items, "completed"))

\* Under the Active filter a habit has just been completed and has left
\* the list: of three habits one card remains
C25_Witness ==
    /\ listening
    /\ currentFilter = "active"
    /\ toasts = <<CompletedMsg>>
    /\ Len(Items) = 3
    /\ Len(habitsContainer) = 1
    /\ statsEls.completed = 2

(***************************************************************************)
(* C26: a change of the filter mode changes the current filter and the     *)
(* visible cards and nothing else: the collection, the stored item and the *)
(* statistics (total, completed, highest streak, percentage) are after it  *)
(* what they were before, for every mode and every collection.             *)
(***************************************************************************)
C26_FilterChangesOnlyTheView ==
    [][\A mode \in Filters :
          (listening /\ handleFilter(mode)) =>
             /\ currentFilter' = mode
             /\ habits' = habits
             /\ localStorage' = localStorage
             /\ statsEls' = statsEls
             /\ writeFailures' = writeFailures
             /\ Len(habitsContainer') = Cardinality(Wanted(Items, mode))]_vars

\* Eight habits, all completed, under the Active filter: no card is shown
\* and the statistics still count eight
C26_Witness ==
    /\ listening
    /\ currentFilter = "active"
    /\ Len(Items) = MaxStored
    /\ habitsContainer = <<>>
    /\ emptyState = "block"
    /\ statsEls.total = MaxStored
    /\ statsEls.percentage = 100

(***************************************************************************)
(* C27: toggle(id) on a collection that has a habit with that id changes   *)
(* the completed, completedAt and streak fields of one habit with that id  *)
(* and nothing else of the collection: that habit keeps its id, name,      *)
(* category and createdAt, every other habit keeps every field, and the    *)
(* length and the order of the collection stay.                            *)
(***************************************************************************)
C27_ToggleFrame ==
    [][\A id \in ScenarioIds :
          (listening /\ Occurrences(habits.val, id) > 0 /\ toggleHabitComplete(id)) =>
             /\ Len(habits'.val) = Len(habits.val)
             /\ \E k \in DOMAIN habits.val :
                   /\ habits.val[k].id = id
                   /\ habits'.val[k].completed # habits.val[k].completed
                   /\ habits'.val[k] =
                         [habits.val[k] EXCEPT !.completed = habits'.val[k].completed,
                                               !.completedAt = habits'.val[k].completedAt,
                                               !.streak = habits'.val[k].streak]
                   /\ \A i \in DOMAIN habits.val : i # k => habits'.val[i] = habits.val[i]]_vars

\* The first of three habits has been completed at a time later than its
\* creation; the two habits behind it are as they were saved
C27_Witness ==
    /\ listening
    /\ Len(habits.val) = 3
    /\ toasts = <<CompletedMsg>>
    /\ habits.val[1].completed
    /\ habits.val[1].completedAt # habits.val[1].createdAt
    /\ habits.val[1].streak = 1
    /\ habits.val[2] = StoredHabit(2, SavedKinds[2])
    /\ habits.val[3] = StoredHabit(3, SavedKinds[3])

(***************************************************************************)
(* C28: when the user declines the confirmation of the delete of a habit   *)
(* that exists, the collection, the stored item, the cards and the empty   *)
(* state on the page, the filter and the statistics stay as they are, and  *)
(* nothing is written or announced.                                        *)
(***************************************************************************)
C28_DeclinedDeleteChangesNothing ==
    [][\A id \in ScenarioIds :
          (listening /\ Occurrences(habits.val, id) > 0 /\ deleteHabit(id, FALSE)) =>
             /\ habits' = habits
             /\ localStorage' = localStorage
             /\ writeFailures' = writeFailures
             /\ habitsContainer' = habitsContainer
             /\ emptyState' = emptyState
             /\ statsEls' = statsEls
             /\ currentFilter' = currentFilter
             /\ toasts' = <<>>]_vars

\* "Drink Water" is there, completed and stored, and the last handler has
\* returned without a message, as the declined delete does
C28_Witness ==
    /\ OnlyDrinkWater(TRUE, 1)
    /\ localStorage = [has |-> TRUE, text |-> JSONstringify(habits)]
    /\ toasts = <<>>
    /\ errors = <<>>
    /\ habitsContainer = <<createHabitCard(habits.val[1])>>

(***************************************************************************)
(* C29: the streak of a habit is the number of its transitions from        *)
(* incomplete to completed since add created it.  Without a history in the *)
(* state this is said step by step: a habit that add creates has streak 0  *)
(* and is incomplete; in every step, a habit that stays in the collection  *)
(* has its streak raised by 1 when the step takes it from incomplete to    *)
(* completed and has it unchanged otherwise, whatever happens to the other *)
(* habits; a habit leaves the collection only by the removal of its place. *)
(***************************************************************************)
Completions(before, after) == IF ~before.completed /\ after.completed THEN 1 ELSE 0

StreaksCount(old, new) ==
    IF Len(new) >= Len(old)
    THEN /\ \A i \in DOMAIN old :
               /\ new[i].id = old[i].id
               /\ new[i].streak = old[i].streak + Completions(old[i], new[i])
         /\ \A i \in (Len(old) + 1)..Len(new) : new[i].streak = 0 /\ ~new[i].completed
    ELSE \E k \in DOMAIN old : new = splice(old, k)

C29_StreakCountsCompletionsInEveryState ==
    [][(listening /\ IsArray(habits')) => StreaksCount(habits.val, habits'.val)]_vars

\* C29, amended: the same, for every step of add, toggle, delete and
\* filter change and for every reload taken while the stored item is the
\* serialization of the collection; a reload after a failed write restores
\* the stored streak together with the stored completed value.
C29_StreakCountsCompletions ==
    [][(listening /\ IsArray(habits') /\ (Reload => InSync)) =>
          StreaksCount(habits.val, habits'.val)]_vars

\* "Drink Water" completed, marked incomplete and completed again
C29_Witness ==
    /\ OnlyDrinkWater(TRUE, 2)
    /\ toasts = <<CompletedMsg>>
    /\ habits.val[1].completedAt = toISOString(now)

(***************************************************************************)
(* C30: in the animated dashboard, once updateStats has been called and no *)
(* handler runs, each counter shown (total, completed, highest streak)     *)
(* comes to the value computed from the collection and stays there, and no *)
(* timer of an earlier update writes over the value of a later one.  In    *)
(* terms of states and steps: when the running timers can no longer change *)
(* what is shown, the counters shown are the computed ones; and a timer    *)
(* callback never takes a counter away from the computed value it shows.   *)
(***************************************************************************)
Computed(el) == updateStats(Items)[el]

\* Every running timer writes, from now on, the text its element shows
Settled ==
    \A k \in DOMAIN timers.running :
       /\ timers.running[k].increment = 0
       /\ callback(timers.running[k]).text = statsEls[timers.running[k].el]

C30_AnimatedStatsSettle ==
    /\ [](Settled => \A i \in DOMAIN Counters : statsEls[Counters[i]] = Computed(Counters[i]))
    /\ [][TimerFires =>
             \A i \in DOMAIN Counters :
                statsEls[Counters[i]] = Computed(Counters[i])
                   => statsEls'[Counters[i]] = statsEls[Counters[i]]]_vars

(***************************************************************************)
(* C31: every interval timer that animateValue starts is cleared in the    *)
(* end, whatever start and end are, start = end included.  The callback    *)
(* being a function of the timer alone, a timer is cleared in the end only *)
(* if each run of its callback clears it or brings `current` nearer to     *)
(* `end`: a running timer that its callback leaves as it is runs for ever. *)
(***************************************************************************)
Distance(timer) ==
    IF FracUnit * timer.end >= timer.current
    THEN FracUnit * timer.end - timer.current
    ELSE timer.current - FracUnit * timer.end

C31_EveryTimerIsCleared ==
    \A k \in DOMAIN timers.running :
       LET run == callback(timers.running[k]) IN
       run.cleared \/ Distance(run.timer) < Distance(timers.running[k])

(***************************************************************************)
(* C32: after init, in every reachable state and for every stored string,  *)
(* the collection in memory is a sequence of habit records: a stored value *)
(* that parses but is not a list of habits (null, a number, an object)     *)
(* never becomes the collection.                                           *)
(***************************************************************************)
C32_CollectionIsAListOfHabits ==
    /\ IsArray(habits)
    /\ \A i \in DOMAIN habits.val :
          /\ \A k \in {"id", "name", "category", "completed", "createdAt", "streak"} :
                HasKey(habits.val[i], k)
          /\ habits.val[i].completed \in BOOLEAN
          /\ habits.val[i].streak \in Nat

(***************************************************************************)
(* C33: when a write to the store has failed in a mutating operation and   *)
(* the stored item differs from the collection, the next mutating          *)
(* operation (add, toggle, confirmed delete) whose write succeeds leaves   *)
(* the stored item equal to the serialization of the collection: the       *)
(* difference does not outlive a successful write.                         *)
(***************************************************************************)
C33_SuccessfulWriteHeals ==
    [][\A in \in ScenarioInputs, id \in ScenarioIds :
          ( /\ listening
            /\ writeFailures > 0
            /\ ~InSync
            /\ \/ handleAddHabit(in.value, in.category)
               \/ toggleHabitComplete(id)
               \/ deleteHabit(id, TRUE)
            /\ habits' # habits
            /\ writeFailures' = writeFailures )
          => InSync']_vars

\* The add of "Drink Water" was not stored; the toggle after it was, and
\* the stored item is the collection again
C33_Witness ==
    /\ OnlyDrinkWater(TRUE, 1)
    /\ writeFailures = 1
    /\ toasts = <<CompletedMsg>>
    /\ InSync
    /\ habits.val[1].createdAt = habits.val[1].completedAt

(***************************************************************************)
(* C34: in every reachable state the statistics computed from the          *)
(* collection, which are the ones shown, satisfy 0 <= completed <= total,  *)
(* 0 <= percentage <= 100, maxStreak >= the streak of every habit, and     *)
(* percentage = 100 whenever there is a habit and every habit is           *)
(* completed.                                                              *)
(***************************************************************************)
C34_StatsBounds ==
    LET stats == updateStats(Items) IN
    /\ statsEls = stats
    /\ 0 <= stats.completed /\ stats.completed <= stats.total
    /\ 0 <= stats.percentage /\ stats.percentage <= 100
    /\ \A i \in DOMAIN Items : stats.maxStreak >= Items[i].streak
    /\ (Len(Items) > 0 /\ \A i \in DOMAIN Items : Items[i].completed) => stats.percentage = 100

\* Forty habits, the first twenty-three completed with streak 1, the others
\* new with streak 0
C34_Witness ==
    /\ listening
    /\ Len(Items) = MaxProgress
    /\ Items[1].streak = 1
    /\ Items[MaxProgress].streak = 0
    /\ statsEls.completed = 23
    /\ statsEls.maxStreak = 1
    /\ statsEls.percentage \in 57..58

=============================================================================
